---------------------------- MODULE Spec2Model ----------------------------
(***************************************************************************)
(* Model of bot.py: the permit-status Telegram bot.                        *)
(*                                                                         *)
(* A Python str is a sequence of characters; a character is a one-element  *)
(* token (a TLA+ string).  Characters outside ASCII are written by their   *)
(* code point: "U+00E9" is e-acute, "U+00C9" is E-acute, "U+0663" is the   *)
(* ARABIC-INDIC DIGIT THREE (a Unicode decimal digit, not an ASCII one).   *)
(***************************************************************************)
EXTENDS Integers, Sequences, FiniteSets, TLC

VARIABLES
    year,          \* datetime.now().year
    inbox,         \* updates fetched by run_polling and not yet processed
    narrived,      \* number of updates that have arrived so far
    pc,            \* position of the update-processing coroutine
    update,        \* the update being (or last) processed
    permit_code,   \* handle_message: permit_code / check_permit_status: its argument
    checking_msg,  \* handle_message: the Message returned by reply_text (its id)
    req,           \* check_permit_status: the outbound request of this call
    resp,          \* check_permit_status: what requests.get produced
    result,        \* check_permit_status: the returned dict
    out,           \* Bot API calls made while processing `update`
    msg_id,        \* id of the last message the bot created
    nreq,          \* number of outbound GET requests issued so far
    nvalid,        \* number of text updates is_permit_code accepted so far
    log,           \* records emitted through `logger`
    fn_in,         \* argument of the pure helper under test
    fn_out         \* its return value

vars == <<year, inbox, narrived, pc, update, permit_code, checking_msg, req,
          resp, result, out, msg_id, nreq, nvalid, log, fn_in, fn_out, nvalid>>

---------------------------------------------------------------------------
(* Bounds of the model *)

MaxEvents == 3      \* updates that arrive in one behaviour
MaxInbox == 2       \* updates waiting at the same time
MaxSegs == 2        \* segments a response body is assembled from
MaxLen == 21        \* longest run of characters tried as a permit code
MaxPad == 1         \* whitespace characters put around a tried code

---------------------------------------------------------------------------
(* Characters and the str methods the program uses *)

LowerAlpha == <<"a","b","c","d","e","f","g","h","i","j","k","l","m",
                "n","o","p","q","r","s","t","u","v","w","x","y","z">>
UpperAlpha == <<"A","B","C","D","E","F","G","H","I","J","K","L","M",
                "N","O","P","Q","R","S","T","U","V","W","X","Y","Z">>
AsciiDigits == {"0","1","2","3","4","5","6","7","8","9"}
AsciiLower == {LowerAlpha[i] : i \in 1..26}
AsciiUpper == {UpperAlpha[i] : i \in 1..26}
UnicodeDigits == AsciiDigits \cup {"U+0663"}
Whitespace == {" ", "\n", "\t"}

Min(S) == CHOOSE x \in S : \A y \in S : x <= y
Max(S) == CHOOSE x \in S : \A y \in S : x >= y

\* str.lower() on one character
char_lower(c) ==
    IF c \in AsciiUpper
    THEN LowerAlpha[CHOOSE i \in 1..26 : UpperAlpha[i] = c]
    ELSE IF c = "U+00C9" THEN "U+00E9" ELSE c

\* str.upper() on one character
char_upper(c) ==
    IF c \in AsciiLower
    THEN UpperAlpha[CHOOSE i \in 1..26 : LowerAlpha[i] = c]
    ELSE IF c = "U+00E9" THEN "U+00C9" ELSE c

str_lower(s) == [i \in 1..Len(s) |-> char_lower(s[i])]
str_upper(s) == [i \in 1..Len(s) |-> char_upper(s[i])]

\* str.strip(): drop leading and trailing whitespace
str_strip(s) ==
    LET keep == {i \in 1..Len(s) : s[i] \notin Whitespace}
    IN IF keep = {} THEN <<>> ELSE SubSeq(s, Min(keep), Max(keep))

\* the `in` operator on two str values
str_contains(needle, hay) ==
    \E i \in 0..(Len(hay) - Len(needle)) :
        \A j \in 1..Len(needle) : hay[i + j] = needle[j]

\* re.match(r"^CLASS{lo,hi}$", s): `$` matches at the end of the string and
\* also just before a newline that ends the string
re_match_class(class, lo, hi, s) ==
    \E n \in lo..hi :
        /\ \/ Len(s) = n
           \/ Len(s) = n + 1 /\ s[n + 1] = "\n"
        /\ \A i \in 1..n : s[i] \in class

\* str(n) for 0 <= n <= 99, then .zfill(2)
DigitChar(d) == <<"0","1","2","3","4","5","6","7","8","9">>[d + 1]
str_int(n) == IF n < 10 THEN <<DigitChar(n)>>
              ELSE <<DigitChar(n \div 10), DigitChar(n % 10)>>
zfill2(s) == IF Len(s) >= 2 THEN s ELSE <<"0">> \o s

---------------------------------------------------------------------------
(* CodeNormalizer: is_permit_code, normalize_permit_code *)

AlnumAscii == AsciiLower \cup AsciiUpper \cup AsciiDigits

is_permit_code_nostrip(text) == re_match_class(AlnumAscii, 6, 20, text)

is_permit_code(text) == re_match_class(AlnumAscii, 6, 20, str_strip(text))

normalize_permit_code_noupper(raw, yr) ==
    LET code == str_strip(raw)
    IN IF re_match_class(UnicodeDigits, 6, 6, code)
       THEN zfill2(str_int(yr % 100)) \o code
       ELSE code

normalize_permit_code_nozfill(raw, yr) ==
    LET code == str_upper(str_strip(raw))
    IN IF re_match_class(UnicodeDigits, 6, 6, code)
       THEN str_int(yr % 100) \o code
       ELSE code

normalize_permit_code_alldigits(raw, yr) ==
    LET code == str_upper(str_strip(raw))
    IN IF re_match_class(UnicodeDigits, 6, 20, code)
       THEN zfill2(str_int(yr % 100)) \o code
       ELSE code

normalize_permit_code_upto8(raw, yr) ==
    LET code == str_upper(str_strip(raw))
    IN IF re_match_class(UnicodeDigits, 6, 8, code)
       THEN zfill2(str_int(yr % 100)) \o code
       ELSE code

normalize_permit_code(raw, yr) ==
    LET code == str_upper(str_strip(raw))
    IN IF re_match_class(UnicodeDigits, 6, 6, code)
       THEN zfill2(str_int(yr % 100)) \o code
       ELSE code

---------------------------------------------------------------------------
(* StatusClassifier: check_permit_status *)

TOKEN_READY == <<"l","a"," ","c","o","n","s","e","g","n","a">>
TOKEN_PROCESSING == <<"i","n"," ","t","r","a","t","t","a","z","i","o","n","e">>

RESULT_ERROR == [status |-> "error", title |-> "Connection Error",
                 description |-> "Could not reach the Polizia di Stato server.",
                 emoji |-> "warning_sign"]
RESULT_READY == [status |-> "ready", title |-> "Ready for Pickup!",
                 description |-> "Your permit is ready!",
                 emoji |-> "check_mark"]
RESULT_PROCESSING == [status |-> "processing", title |-> "Being Processed",
                      description |-> "Your application is currently being processed.",
                      emoji |-> "hourglass"]
RESULT_UNKNOWN == [status |-> "unknown", title |-> "Not Yet Started",
                   description |-> "No information is available for this permit code.",
                   emoji |-> "cross_mark"]
NoResult == [status |-> "", title |-> "", description |-> "", emoji |-> ""]

\* what requests.get can produce: a Response (status_code, text) or a raised
\* requests.RequestException (ConnectionError, Timeout)
Response(status, text) ==
    [kind |-> "response", status |-> status, text |-> text, exc |-> ""]
Raised(exc) ==
    [kind |-> "exception", status |-> 0, text |-> <<>>, exc |-> exc]
NoResp == [kind |-> "", status |-> 0, text |-> <<>>, exc |-> ""]

\* the request check_permit_status builds: params and the Referer header
NoReq == [pratica |-> <<>>, referer |-> <<>>]
build_request(code) ==
    [pratica |-> code,
     referer |-> <<"?","p","r","a","t","i","c","a","=">> \o code]

\* Response.raise_for_status(): HTTPError for a 4xx or 5xx status, nothing else
raise_for_status(r) == r.status >= 400 /\ r.status < 600

\* the try block raises a RequestException
request_failed(r) == r.kind = "exception" \/ raise_for_status(r)

failure_reason(r) == IF r.kind = "exception" THEN r.exc ELSE "HTTPError"

\* body = resp.text.lower()
response_body_raw(r) == r.text

response_body(r) == str_lower(r.text)

\* the if / elif / else over the lower-cased body
match_body_processing_first(body) ==
    IF str_contains(TOKEN_PROCESSING, body) THEN RESULT_PROCESSING
    ELSE IF str_contains(TOKEN_READY, body) THEN RESULT_READY
    ELSE RESULT_UNKNOWN

match_body_default_processing(body) ==
    IF str_contains(TOKEN_READY, body) THEN RESULT_READY
    ELSE RESULT_PROCESSING

match_body_no_default(body) ==
    IF str_contains(TOKEN_READY, body) THEN RESULT_READY
    ELSE IF str_contains(TOKEN_PROCESSING, body) THEN RESULT_PROCESSING
    ELSE NoResult

match_body(body) ==
    IF str_contains(TOKEN_READY, body) THEN RESULT_READY
    ELSE IF str_contains(TOKEN_PROCESSING, body) THEN RESULT_PROCESSING
    ELSE RESULT_UNKNOWN

\* the dict check_permit_status returns, given what requests.get produced
check_permit_status_result(r) ==
    IF request_failed(r) THEN RESULT_ERROR ELSE match_body(response_body(r))

\* logger.error("Request failed for %s: %s", permit_code, exc) in the except block
log_after_return_silent(l, code, r) == l

log_after_return(l, code, r) ==
    IF request_failed(r)
    THEN Append(l, [level |-> "ERROR", code |-> code, reason |-> failure_reason(r)])
    ELSE l

---------------------------------------------------------------------------
(* ResponseFormatter: STATUS_COLORS, build_result_message *)

STATUS_COLORS_no_error(status) ==
    CASE status = "ready" -> "green_circle"
      [] status = "processing" -> "yellow_circle"
      [] status = "unknown" -> "red_circle"
      [] OTHER -> "question_mark"

STATUS_COLORS(status) ==
    CASE status = "ready" -> "green_circle"
      [] status = "processing" -> "yellow_circle"
      [] status = "unknown" -> "red_circle"
      [] status = "error" -> "warning_sign"
      [] OTHER -> "question_mark"

NoBlock == [emoji |-> "", title |-> "", permit_code |-> <<>>, dot |-> "",
            status_title |-> "", description |-> ""]

\* the lines of the f-string: header, "Permit Code:" line, "Status:" line, description
build_result_message(code, res) ==
    [emoji |-> res.emoji, title |-> res.title, permit_code |-> code,
     dot |-> STATUS_COLORS(res.status), status_title |-> res.title,
     description |-> res.description]

\* the callback_data of the buttons of main_menu_keyboard()
main_menu_keyboard == {"check", "help"}

---------------------------------------------------------------------------
(* Updates and the handlers registered in main() *)

Command(name) == [type |-> "command", name |-> name, text |-> <<>>]
Callback(data) == [type |-> "callback", name |-> data, text |-> <<>>]
Text(text) == [type |-> "text", name |-> "", text |-> text]
NoUpdate == [type |-> "", name |-> "", text |-> <<>>]

\* Application.process_update: the first registered handler that accepts the
\* update handles it; a command no CommandHandler names is accepted by none
\* (the MessageHandler filter excludes commands)
Route_home_to_help(u) ==
    CASE u.type = "command" /\ u.name = "start" -> "start"
      [] u.type = "command" /\ u.name = "check" -> "check_command"
      [] u.type = "command" /\ u.name = "help" -> "help_command"
      [] u.type = "callback" /\ u.name = "check" -> "check_button"
      [] u.type = "callback" /\ u.name \in {"help", "home"} -> "help_button"
      [] u.type = "text" -> "handle_message"
      [] OTHER -> "none"

Route(u) ==
    CASE u.type = "command" /\ u.name = "start" -> "start"
      [] u.type = "command" /\ u.name = "check" -> "check_command"
      [] u.type = "command" /\ u.name = "help" -> "help_command"
      [] u.type = "callback" /\ u.name = "check" -> "check_button"
      [] u.type = "callback" /\ u.name = "help" -> "help_button"
      [] u.type = "callback" /\ u.name = "home" -> "start"
      [] u.type = "text" -> "handle_message"
      [] OTHER -> "none"

\* one Bot API call: op on message msg, with the text sent, the result block
\* (for the result message) and the callback_data of the inline keyboard
ApiCall(op, msg, text, block, keyboard) ==
    [op |-> op, msg |-> msg, text |-> text, block |-> block, keyboard |-> keyboard]

\* the message a pressed button sits on (update.callback_query.message)
ButtonMsg == 0

---------------------------------------------------------------------------
(* Inputs *)

Years == {2009, 2026}

T_hi == <<"h","i">>
T_123456 == <<"1","2","3","4","5","6">>
T_ab1234 == <<"a","b","1","2","3","4">>
T_spaced == <<"1","2"," ","3","4","5","6">>
T_full == <<"2","6","B","O","1","2","3","4","5","6">>
T_max == <<"a","b","c","d","e","f","g","h","i","j",
           "0","1","2","3","4","5","6","7","8","9">>
Texts == {T_hi, T_123456, T_ab1234, T_spaced, T_full, T_max}

Updates ==
    {Command(n) : n \in {"start", "check", "help", "home"}}
    \cup {Callback(d) : d \in {"check", "help", "home"}}
    \cup {Text(t) : t \in Texts}

Segments ==
    { <<"l","a"," ","c","o","n","s","e","g","n","a">>,
      <<"L","A"," ","C","O","N","S","E","G","N","A">>,
      <<"L","a"," ","C","o","n","s","e","g","n","a">>,
      <<"i","n"," ","t","r","a","t","t","a","z","i","o","n","e">>,
      <<"I","N"," ","T","R","A","T","T","A","Z","I","O","N","E">>,
      <<"l","a"," ","c","o","n","s","e">>,
      <<"g","n","a">>,
      <<"i","n"," ","t","r","a","t","t","a">>,
      <<"z","i","o","n","e">>,
      <<"<","p",">">> }

RECURSIVE BodiesUpTo(_)
BodiesUpTo(n) ==
    IF n = 0 THEN {<<>>}
    ELSE LET B == BodiesUpTo(n - 1)
         IN B \cup {b \o sg : b \in B, sg \in Segments}

StatusCodes == {200, 204, 304, 404, 503}
Exceptions == {"ConnectionError", "Timeout"}

AllResponses ==
    {Response(st, b) : st \in StatusCodes, b \in BodiesUpTo(MaxSegs)}
    \cup {Raised(e) : e \in Exceptions}

SampleBodies ==
    { <<>>,
      <<"l","a"," ","c","o","n","s","e","g","n","a">>,
      <<"I","N"," ","T","R","A","T","T","A","Z","I","O","N","E">> }

SampleResponses ==
    {Response(200, b) : b \in SampleBodies}
    \cup {Response(404, <<>>), Raised("Timeout")}

---------------------------------------------------------------------------
(* The bot: Application.run_polling processes one update at a time
   (Application.builder() leaves concurrent_updates off), and every handler
   runs on the one event loop. *)

NoCall == [fn |-> "", ok |-> FALSE, code |-> <<>>]

Init ==
    /\ year \in Years
    /\ inbox = <<>>
    /\ narrived = 0
    /\ pc = "idle"
    /\ update = NoUpdate
    /\ permit_code = <<>>
    /\ checking_msg = 0
    /\ req = NoReq
    /\ resp = NoResp
    /\ result = NoResult
    /\ out = <<>>
    /\ msg_id = 0
    /\ nreq = 0
    /\ nvalid = 0
    /\ log = <<[level |-> "INFO", code |-> <<>>, reason |-> "Bot is starting"]>>
    /\ fn_in = <<>>
    /\ fn_out = NoCall

\* a user sends a command or a text, or presses a button; run_polling queues it
Arrive(u) ==
    /\ narrived < MaxEvents
    /\ Len(inbox) < MaxInbox
    /\ inbox' = Append(inbox, u)
    /\ narrived' = narrived + 1
    /\ UNCHANGED <<year, pc, update, permit_code, checking_msg, req, resp,
                   result, out, msg_id, nreq, log, fn_in, fn_out, nvalid>>

\* the update loop takes the next update and calls handler h with fresh locals
Take(h) ==
    /\ pc = "idle"
    /\ inbox # <<>>
    /\ Route(Head(inbox)) = h
    /\ update' = Head(inbox)
    /\ inbox' = Tail(inbox)

\* a handler that never reaches check_permit_status: its locals stay unset
NoQuery ==
    /\ permit_code' = <<>>
    /\ checking_msg' = 0
    /\ req' = NoReq
    /\ resp' = NoResp
    /\ result' = NoResult

\* update.message.reply_text(...): a new message
Reply(text, block, keyboard) ==
    ApiCall("reply_text", msg_id + 1, text, block, keyboard)

\* callback_query.answer() then callback_query.edit_message_text(...)
AnswerAndEdit(text, keyboard) ==
    << ApiCall("answer", ButtonMsg, "", NoBlock, {}),
       ApiCall("edit_message_text", ButtonMsg, text, NoBlock, keyboard) >>

\* start(): the /start command and the "home" button
Start ==
    /\ Take("start")
    /\ NoQuery
    /\ IF Head(inbox).type = "callback"
       THEN /\ out' = AnswerAndEdit("welcome", main_menu_keyboard)
            /\ msg_id' = msg_id
       ELSE /\ out' = <<Reply("welcome", NoBlock, main_menu_keyboard)>>
            /\ msg_id' = msg_id + 1
    /\ pc' = "idle"
    /\ UNCHANGED <<year, narrived, nreq, log, fn_in, fn_out, nvalid>>

CheckButton ==
    /\ Take("check_button")
    /\ NoQuery
    /\ out' = AnswerAndEdit("prompt_button", {})
    /\ pc' = "idle"
    /\ UNCHANGED <<year, narrived, msg_id, nreq, log, fn_in, fn_out, nvalid>>

HelpButton ==
    /\ Take("help_button")
    /\ NoQuery
    /\ out' = AnswerAndEdit("help_button", {"home"})
    /\ pc' = "idle"
    /\ UNCHANGED <<year, narrived, msg_id, nreq, log, fn_in, fn_out, nvalid>>

HelpCommand ==
    /\ Take("help_command")
    /\ NoQuery
    /\ out' = <<Reply("help_command", NoBlock, {"check"})>>
    /\ msg_id' = msg_id + 1
    /\ pc' = "idle"
    /\ UNCHANGED <<year, narrived, nreq, log, fn_in, fn_out, nvalid>>

CheckCommand ==
    /\ Take("check_command")
    /\ NoQuery
    /\ out' = <<Reply("prompt_command", NoBlock, {})>>
    /\ msg_id' = msg_id + 1
    /\ pc' = "idle"
    /\ UNCHANGED <<year, narrived, nreq, log, fn_in, fn_out, nvalid>>

\* an update no handler accepts is dropped without a reply
Unhandled ==
    /\ Take("none")
    /\ NoQuery
    /\ out' = <<>>
    /\ pc' = "idle"
    /\ UNCHANGED <<year, narrived, msg_id, nreq, log, fn_in, fn_out, nvalid>>


\* handle_message, text is not a permit code: the rejection reply, then return
HandleMessageReject_fallthrough ==
    /\ Take("handle_message")
    /\ LET text == str_strip(Head(inbox).text)
       IN /\ ~is_permit_code(text)
          /\ permit_code' = normalize_permit_code(text, year)
          /\ out' = << Reply("rejection", NoBlock, {}),
                       ApiCall("reply_text", msg_id + 2, "checking", NoBlock, {}) >>
    /\ msg_id' = msg_id + 2
    /\ checking_msg' = msg_id + 2
    /\ req' = NoReq /\ resp' = NoResp /\ result' = NoResult
    /\ pc' = "call"
    /\ UNCHANGED <<year, narrived, nreq, log, fn_in, fn_out, nvalid>>

HandleMessageReject ==
    /\ Take("handle_message")
    /\ ~is_permit_code(str_strip(Head(inbox).text))
    /\ NoQuery
    /\ out' = <<Reply("rejection", NoBlock, {})>>
    /\ msg_id' = msg_id + 1
    /\ pc' = "idle"
    /\ UNCHANGED <<year, narrived, nreq, log, fn_in, fn_out, nvalid>>

\* handle_message, text is a permit code: normalize it and send the
\* "checking" placeholder; check_permit_status is called next
HandleMessageCheck_noplaceholder ==
    /\ Take("handle_message")
    /\ LET text == str_strip(Head(inbox).text)
       IN /\ is_permit_code(text)
          /\ permit_code' = normalize_permit_code(text, year)
    /\ out' = <<>>
    /\ msg_id' = msg_id
    /\ checking_msg' = 0
    /\ req' = NoReq /\ resp' = NoResp /\ result' = NoResult
    /\ pc' = "call"
    /\ nvalid' = nvalid + 1
    /\ UNCHANGED <<year, narrived, nreq, log, fn_in, fn_out>>

HandleMessageCheck ==
    /\ Take("handle_message")
    /\ LET text == str_strip(Head(inbox).text)
       IN /\ is_permit_code(text)
          /\ permit_code' = normalize_permit_code(text, year)
    /\ out' = <<Reply("checking", NoBlock, {})>>
    /\ msg_id' = msg_id + 1
    /\ checking_msg' = msg_id + 1
    /\ req' = NoReq /\ resp' = NoResp /\ result' = NoResult
    /\ pc' = "call"
    /\ nvalid' = nvalid + 1
    /\ UNCHANGED <<year, narrived, nreq, log, fn_in, fn_out>>

\* check_permit_status: build params and Referer, issue requests.get (blocking)
CpsRequest_twice ==
    /\ pc = "call"
    /\ req' = build_request(permit_code)
    /\ nreq' = nreq + 2
    /\ pc' = "inflight"
    /\ UNCHANGED <<year, inbox, narrived, update, permit_code, checking_msg,
                   resp, result, out, msg_id, log, fn_in, fn_out, nvalid>>

CpsRequest ==
    /\ pc = "call"
    /\ req' = build_request(permit_code)
    /\ nreq' = nreq + 1
    /\ pc' = "inflight"
    /\ UNCHANGED <<year, inbox, narrived, update, permit_code, checking_msg,
                   resp, result, out, msg_id, log, fn_in, fn_out, nvalid>>

\* check_permit_status: requests.get returns or raises; raise_for_status;
\* the except block or the body match; return
CpsReturn_retry(R) ==
    /\ pc = "inflight"
    /\ \E r \in R :
        /\ resp' = r
        /\ result' = check_permit_status_result(r)
        /\ log' = log_after_return(log, permit_code, r)
        /\ pc' = IF request_failed(r) /\ nreq < 2 THEN "call" ELSE "returned"
    /\ UNCHANGED <<year, inbox, narrived, update, permit_code, checking_msg,
                   req, out, msg_id, nreq, fn_in, fn_out, nvalid>>

CpsReturn_uncaught(R) ==
    /\ pc = "inflight"
    /\ \E r \in R :
        /\ resp' = r
        /\ IF r.kind = "exception" /\ r.exc = "Timeout"
           THEN /\ result' = NoResult
                /\ log' = Append(log, [level |-> "ERROR", code |-> <<>>,
                                       reason |-> "No error handlers are registered"])
                /\ pc' = "idle"
           ELSE /\ result' = check_permit_status_result(r)
                /\ log' = log_after_return(log, permit_code, r)
                /\ pc' = "returned"
    /\ UNCHANGED <<year, inbox, narrived, update, permit_code, checking_msg,
                   req, out, msg_id, nreq, fn_in, fn_out, nvalid>>

CpsReturn_remembers(R) ==
    /\ pc = "inflight"
    /\ \E r \in R :
        /\ resp' = r
        /\ result' = IF \E i \in 1..Len(log) :
                           log[i].level = "ERROR" /\ log[i].code = permit_code
                      THEN RESULT_ERROR
                      ELSE check_permit_status_result(r)
        /\ log' = log_after_return(log, permit_code, r)
    /\ pc' = "returned"
    /\ UNCHANGED <<year, inbox, narrived, update, permit_code, checking_msg,
                   req, out, msg_id, nreq, fn_in, fn_out, nvalid>>

CpsReturn(R) ==
    /\ pc = "inflight"
    /\ \E r \in R :
        /\ resp' = r
        /\ result' = check_permit_status_result(r)
        /\ log' = log_after_return(log, permit_code, r)
    /\ pc' = "returned"
    /\ UNCHANGED <<year, inbox, narrived, update, permit_code, checking_msg,
                   req, out, msg_id, nreq, fn_in, fn_out, nvalid>>

\* the reply handle_message builds from permit_code and result
result_reply_raw(text, code, res) == build_result_message(text, res)

result_reply(text, code, res) == build_result_message(code, res)

\* handle_message: build the reply and edit the placeholder into it
HandleMessageEdit ==
    /\ pc = "returned"
    /\ update.type = "text"
    /\ out' = Append(out, ApiCall("edit_text", checking_msg, "result",
                                  result_reply(str_strip(update.text), permit_code, result),
                                  {"check", "home"}))
    /\ pc' = "idle"
    /\ UNCHANGED <<year, inbox, narrived, update, permit_code, checking_msg,
                   req, resp, result, msg_id, nreq, log, fn_in, fn_out, nvalid>>

Next ==
    \/ \E u \in Updates : Arrive(u)
    \/ Start
    \/ CheckCommand
    \/ HelpCommand
    \/ CheckButton
    \/ HelpButton
    \/ Unhandled
    \/ HandleMessageReject
    \/ HandleMessageCheck
    \/ CpsRequest
    \/ CpsReturn(SampleResponses)
    \/ HandleMessageEdit

Spec == Init /\ [][Next]_vars

---------------------------------------------------------------------------
(* check_permit_status called on its own, over many remote responses *)

SampleCodes ==
    { <<"2","6","1","2","3","4","5","6">>,
      <<"2","6","B","O","1","2","3","4","5","6">> }

InitClassify ==
    /\ year \in Years
    /\ inbox = <<>>
    /\ narrived = 0
    /\ pc = "call"
    /\ update = NoUpdate
    /\ permit_code \in SampleCodes
    /\ checking_msg = 0
    /\ req = NoReq
    /\ resp = NoResp
    /\ result = NoResult
    /\ out = <<>>
    /\ msg_id = 0
    /\ nreq = 0
    /\ nvalid = 0
    /\ log = <<>>
    /\ fn_in = <<>>
    /\ fn_out = NoCall

NextClassify ==
    \/ CpsRequest
    \/ CpsReturn(AllResponses)

SpecClassify == InitClassify /\ [][NextClassify]_vars

---------------------------------------------------------------------------
(* is_permit_code and normalize_permit_code called on their own *)

RECURSIVE PadsUpTo(_)
PadsUpTo(n) ==
    IF n = 0 THEN {<<>>}
    ELSE LET P == PadsUpTo(n - 1)
         IN P \cup {q \o <<w>> : q \in P, w \in {" ", "\n"}}

BaseChars == {"1", "a"}
OddChars == {"7", "B", " ", "\n", "-", "U+00E9", "U+0663"}

\* n times the character c, with the character at position p replaced by d
Run(n, c, p, d) == [i \in 1..n |-> IF i = p THEN d ELSE c]

CodeInputs ==
    { lead \o Run(n, c, p, d) \o trail :
        lead \in PadsUpTo(MaxPad), trail \in PadsUpTo(MaxPad),
        n \in 0..MaxLen, c \in BaseChars,
        p \in {1, 3, MaxLen - 1, MaxLen}, d \in OddChars }

InitCode ==
    /\ year \in Years
    /\ inbox = <<>>
    /\ narrived = 0
    /\ pc = "fn"
    /\ update = NoUpdate
    /\ permit_code = <<>>
    /\ checking_msg = 0
    /\ req = NoReq
    /\ resp = NoResp
    /\ result = NoResult
    /\ out = <<>>
    /\ msg_id = 0
    /\ nreq = 0
    /\ nvalid = 0
    /\ log = <<>>
    /\ fn_in \in CodeInputs
    /\ fn_out = NoCall

CallIsPermitCode ==
    /\ pc = "fn"
    /\ fn_out = NoCall
    /\ fn_out' = [fn |-> "is_permit_code", ok |-> is_permit_code(fn_in), code |-> <<>>]
    /\ UNCHANGED <<year, inbox, narrived, pc, update, permit_code, checking_msg,
                   req, resp, result, out, msg_id, nreq, log, fn_in, nvalid>>

CallNormalizePermitCode ==
    /\ pc = "fn"
    /\ fn_out = NoCall
    /\ fn_out' = [fn |-> "normalize_permit_code", ok |-> FALSE,
                  code |-> normalize_permit_code(fn_in, year)]
    /\ UNCHANGED <<year, inbox, narrived, pc, update, permit_code, checking_msg,
                   req, resp, result, out, msg_id, nreq, log, fn_in, nvalid>>

NextCode ==
    \/ CallIsPermitCode
    \/ CallNormalizePermitCode

SpecCode == InitCode /\ [][NextCode]_vars

---------------------------------------------------------------------------
(* Vocabulary of the properties, stated without the program's helpers *)

\* tok (lower-case) occurs in s with each letter in either case
OccursAnyCase(tok, s) ==
    \E i \in 1..Len(s) :
        /\ i + Len(tok) - 1 <= Len(s)
        /\ \A j \in 1..Len(tok) : s[i + j - 1] \in {tok[j], char_upper(tok[j])}

\* requests.get produced a response and the try block did not raise
Fetched == resp.kind = "response" /\ (resp.status < 400 \/ resp.status >= 600)

RECURSIVE TrimLeft(_)
TrimLeft(s) ==
    IF s # <<>> /\ Head(s) \in {" ", "\n", "\t"} THEN TrimLeft(Tail(s)) ELSE s

RECURSIVE TrimRight(_)
TrimRight(s) ==
    IF s # <<>> /\ s[Len(s)] \in {" ", "\n", "\t"}
    THEN TrimRight(SubSeq(s, 1, Len(s) - 1)) ELSE s

Trimmed(s) == TrimRight(TrimLeft(s))

AsciiLettersAndDigits ==
    {"a","b","c","d","e","f","g","h","i","j","k","l","m","n","o","p","q","r",
     "s","t","u","v","w","x","y","z","A","B","C","D","E","F","G","H","I","J",
     "K","L","M","N","O","P","Q","R","S","T","U","V","W","X","Y","Z",
     "0","1","2","3","4","5","6","7","8","9"}

\* the trimmed text is 6 to 20 ASCII letters and digits
LooksLikeCode(t) ==
    LET s == Trimmed(t)
    IN /\ Len(s) >= 6
       /\ Len(s) <= 20
       /\ \A i \in 1..Len(s) : s[i] \in AsciiLettersAndDigits

---------------------------------------------------------------------------
(* C1-C4: check_permit_status, under SpecClassify *)

\* C1: a fetched body that contains "la consegna" in any letter case yields
\* the ready result, whatever else the body holds ("in trattazione" included)
C1_ReadyFirst ==
    (pc = "returned" /\ Fetched /\ OccursAnyCase(TOKEN_READY, resp.text))
        => result = RESULT_READY

C1_Witness ==
    /\ pc = "returned"
    /\ Fetched
    /\ OccursAnyCase(TOKEN_READY, resp.text)
    /\ OccursAnyCase(TOKEN_PROCESSING, resp.text)
    /\ ~str_contains(TOKEN_READY, resp.text)
    /\ result.status = "ready"

\* C2: a fetched body that contains "in trattazione" in any letter case and
\* no "la consegna" yields the processing result
C2_Processing ==
    (/\ pc = "returned"
     /\ Fetched
     /\ OccursAnyCase(TOKEN_PROCESSING, resp.text)
     /\ ~OccursAnyCase(TOKEN_READY, resp.text))
        => result = RESULT_PROCESSING

C2_Witness ==
    /\ pc = "returned"
    /\ Fetched
    /\ OccursAnyCase(TOKEN_PROCESSING, resp.text)
    /\ ~str_contains(TOKEN_PROCESSING, resp.text)
    /\ ~OccursAnyCase(TOKEN_READY, resp.text)
    /\ result.status = "processing"

\* C3: a fetched body that contains neither token, the empty body included,
\* yields the unknown result
C3_Unknown ==
    (/\ pc = "returned"
     /\ Fetched
     /\ ~OccursAnyCase(TOKEN_READY, resp.text)
     /\ ~OccursAnyCase(TOKEN_PROCESSING, resp.text))
        => result = RESULT_UNKNOWN

C3_Witness ==
    /\ pc = "returned"
    /\ Fetched
    /\ Len(resp.text) > Len(TOKEN_PROCESSING)
    /\ ~OccursAnyCase(TOKEN_READY, resp.text)
    /\ ~OccursAnyCase(TOKEN_PROCESSING, resp.text)
    /\ result.status = "unknown"

\* the one log record of a failed call: level, the code, the failure reason
FailureRecord ==
    [level |-> "ERROR", code |-> permit_code,
     reason |-> IF resp.kind = "exception" THEN resp.exc ELSE "HTTPError"]

\* C4 as stated: a connection error, a timeout or any final status outside
\* 2xx yields the error result after one query and one log record, and a
\* successful query logs nothing
C4_AnyNon2xxIsError ==
    pc = "returned" =>
        IF resp.kind = "exception" \/ resp.status < 200 \/ resp.status > 299
        THEN result = RESULT_ERROR /\ nreq = 1 /\ log = <<FailureRecord>>
        ELSE log = <<>>

\* C4 amended: a connection error, a timeout or a 4xx/5xx final status yields
\* the error result after exactly one query and exactly one log record naming
\* the code and the reason; every other outcome (a 3xx final status included)
\* logs nothing and is classified by its body
C4_Http4xx5xxIsError ==
    pc = "returned" =>
        IF resp.kind = "exception" \/ (resp.status >= 400 /\ resp.status <= 599)
        THEN result = RESULT_ERROR /\ nreq = 1 /\ log = <<FailureRecord>>
        ELSE result # RESULT_ERROR /\ nreq = 1 /\ log = <<>>

C4_Witness ==
    /\ pc = "returned"
    /\ resp.kind = "exception"
    /\ resp.exc = "Timeout"
    /\ result = RESULT_ERROR
    /\ nreq = 1
    /\ Len(log) = 1

---------------------------------------------------------------------------
(* C5-C9: the handlers, under Spec *)

\* handle_message has finished a text that is a permit code: the placeholder
\* was edited into the result
Resolved ==
    /\ pc = "idle"
    /\ update.type = "text"
    /\ Len(out) = 2
    /\ out[2].text = "result"

\* C5 as stated: the "Permit Code" line of the result shows the text as the
\* user sent it, not the normalized code that was sent to the portal
C5_ShowsRawCode ==
    Resolved => out[2].block.permit_code = update.text

\* C5 amended: the "Permit Code" line of the result shows the normalized code,
\* the very value sent to the portal as `pratica` (a six-digit text sent in
\* 2026 is shown with the prefix 26, a lower-case text is shown upper-cased)
C5_ShowsNormalizedCode ==
    Resolved =>
        /\ out[2].block.permit_code = req.pratica
        /\ (update.text = T_123456 /\ year = 2026) =>
               out[2].block.permit_code = <<"2","6","1","2","3","4","5","6">>
        /\ update.text = T_ab1234 =>
               out[2].block.permit_code = <<"A","B","1","2","3","4">>

C5_Witness ==
    /\ Resolved
    /\ update.text = T_123456
    /\ year = 2026
    /\ result.status = "ready"
    /\ out[2].block.dot = "green_circle"
    /\ out[2].block.permit_code = <<"2","6","1","2","3","4","5","6">>
    /\ out[2].block.permit_code # update.text

\* handling the update at the head of the queue
HandlePending ==
    \/ Start
    \/ CheckCommand
    \/ HelpCommand
    \/ CheckButton
    \/ HelpButton
    \/ Unhandled
    \/ HandleMessageReject
    \/ HandleMessageCheck

\* C6: while the outbound query of one text is in flight, an update that
\* arrived meanwhile can be handled before the query returns
C6_QueryDoesNotStall ==
    (pc = "inflight" /\ inbox # <<>>) => ENABLED HandlePending

\* C7: a text that is not a permit code gets the rejection reply and nothing
\* else: no placeholder, no normalized code, no request, no result
C7_RejectOnly ==
    (update.type = "text" /\ ~LooksLikeCode(update.text)) =>
        /\ pc = "idle"
        /\ Len(out) = 1
        /\ out[1].op = "reply_text"
        /\ out[1].text = "rejection"
        /\ permit_code = <<>>
        /\ req = NoReq
        /\ resp = NoResp
        /\ result = NoResult

C7_Witness ==
    /\ update = Text(T_hi)
    /\ pc = "idle"
    /\ out = <<ApiCall("reply_text", msg_id, "rejection", NoBlock, {})>>
    /\ req = NoReq
    /\ nreq = 0

\* C8: for a text that is a permit code the steps come in this order:
\* normalize, send the placeholder, query with the normalized code, and only
\* when the query has returned edit that same placeholder into the result
\* with the buttons check and home
C8_StepOrder ==
    (update.type = "text" /\ LooksLikeCode(update.text)) =>
        /\ permit_code = normalize_permit_code(update.text, year)
        /\ Len(out) >= 1
        /\ out[1].op = "reply_text"
        /\ out[1].text = "checking"
        /\ out[1].msg = checking_msg
        /\ pc \in {"call", "inflight", "returned", "idle"}
        /\ pc = "call" => Len(out) = 1 /\ req = NoReq /\ result = NoResult
        /\ pc = "inflight" =>
              Len(out) = 1 /\ req.pratica = permit_code /\ result = NoResult
        /\ pc = "returned" =>
              Len(out) = 1 /\ req.pratica = permit_code /\ result # NoResult
        /\ pc = "idle" =>
              /\ Len(out) = 2
              /\ req.pratica = permit_code
              /\ result # NoResult
              /\ out[2].op = "edit_text"
              /\ out[2].msg = out[1].msg
              /\ out[2].text = "result"
              /\ out[2].block.status_title = result.title
              /\ out[2].keyboard = {"check", "home"}

C8_Witness ==
    /\ Resolved
    /\ LooksLikeCode(update.text)
    /\ out[1].text = "checking"
    /\ out[2].msg = out[1].msg
    /\ out[2].keyboard = {"check", "home"}
    /\ result = RESULT_PROCESSING

\* the screen a sent text stands for
ScreenOf(text) ==
    CASE text = "welcome" -> "Home"
      [] text \in {"prompt_command", "prompt_button"} -> "CheckPrompt"
      [] text \in {"help_command", "help_button"} -> "Help"
      [] OTHER -> "none"

\* what the user sees once the update is handled
Rendered == IF out = <<>> THEN "nothing" ELSE ScreenOf(out[Len(out)].text)
RenderedKeyboard == IF out = <<>> THEN {} ELSE out[Len(out)].keyboard

\* a command or a button press has been handled
Routed == pc = "idle" /\ update.type \in {"command", "callback"}

\* C9 as stated: "start" or "home", as a command or as a button, renders
\* Home with the buttons check and help; "check" renders CheckPrompt; "help"
\* renders Help; none of them issues a request
C9_RoutedByNameAlone ==
    Routed =>
        /\ update.name \in {"start", "home"} =>
               Rendered = "Home" /\ RenderedKeyboard = {"check", "help"}
        /\ update.name = "check" => Rendered = "CheckPrompt"
        /\ update.name = "help" => Rendered = "Help"
        /\ req = NoReq

\* C9 amended: the command "start" and the button "home" render Home with the
\* buttons check and help; "check" (command or button) renders CheckPrompt;
\* "help" (command or button) renders Help; a command no handler is
\* registered for ("home") gets no reply; none of them issues a request
C9_RoutedByHandlers ==
    /\ update.type \in {"command", "callback"} => pc = "idle"
    /\ Routed =>
        /\ (update = Command("start") \/ update = Callback("home")) =>
               Rendered = "Home" /\ RenderedKeyboard = {"check", "help"}
        /\ update.name = "check" => Rendered = "CheckPrompt"
        /\ update.name = "help" => Rendered = "Help"
        /\ update = Command("home") => out = <<>>
        /\ req = NoReq
        /\ result = NoResult

C9_Witness ==
    /\ Routed
    /\ update = Callback("home")
    /\ Rendered = "Home"
    /\ RenderedKeyboard = {"check", "help"}
    /\ out[1].op = "answer"
    /\ nreq = 0

---------------------------------------------------------------------------
(* C10: is_permit_code, under SpecCode *)

\* C10: is_permit_code(text) is true exactly when the trimmed text is 6 to 20
\* ASCII letters and digits
C10_IsCodeIff ==
    fn_out.fn = "is_permit_code" => (fn_out.ok <=> LooksLikeCode(fn_in))

C10_Witness ==
    /\ fn_out.fn = "is_permit_code"
    /\ fn_out.ok
    /\ Len(Trimmed(fn_in)) = 20
    /\ Len(fn_in) > 20

---------------------------------------------------------------------------
(* C11, C12: normalize_permit_code, under SpecCode *)

DigitsOnly(s) == \A i \in 1..Len(s) : s[i] \in {"0","1","2","3","4","5","6","7","8","9"}

AlnumOnly(s) == \A i \in 1..Len(s) : s[i] \in AsciiLettersAndDigits

\* the year modulo 100 written with two digits
TwoDigitYear(yr) == <<DigitChar((yr % 100) \div 10), DigitChar(yr % 10)>>

NormalizeCalled == fn_out.fn = "normalize_permit_code"

\* C11: for an input of exactly six digits normalize returns the two-digit
\* year (zero-padded) followed by the input, eight characters in all
C11_SixDigitsGetYear ==
    (NormalizeCalled /\ Len(fn_in) = 6 /\ DigitsOnly(fn_in)) =>
        /\ fn_out.code = TwoDigitYear(year) \o fn_in
        /\ Len(fn_out.code) = 8

C11_Witness ==
    /\ NormalizeCalled
    /\ Len(fn_in) = 6
    /\ DigitsOnly(fn_in)
    /\ year = 2009
    /\ SubSeq(fn_out.code, 1, 2) = <<"0", "9">>
    /\ SubSeq(fn_out.code, 3, 8) = fn_in

\* c and d are the same letter or digit, d in upper case
UpperOf(c, d) ==
    IF c \in {"0","1","2","3","4","5","6","7","8","9"} \/ c \in AsciiUpper
    THEN d = c
    ELSE d \in AsciiUpper /\ char_lower(d) = c

\* C12: for an input of 6 to 20 ASCII letters and digits that is not exactly
\* six digits normalize returns the input upper-cased: same length, same
\* characters in the same order, no prefix
C12_OthersOnlyUppercased ==
    (/\ NormalizeCalled
     /\ Len(fn_in) >= 6
     /\ Len(fn_in) <= 20
     /\ AlnumOnly(fn_in)
     /\ ~(Len(fn_in) = 6 /\ DigitsOnly(fn_in))) =>
        /\ Len(fn_out.code) = Len(fn_in)
        /\ \A i \in 1..Len(fn_in) : UpperOf(fn_in[i], fn_out.code[i])

C12_Witness ==
    /\ NormalizeCalled
    /\ Len(fn_in) = 7
    /\ DigitsOnly(fn_in)
    /\ fn_out.code = fn_in

---------------------------------------------------------------------------
(* C19: normalize_permit_code applied to its own result, under SpecCode *)

\* C19: for an input is_permit_code accepts, normalizing the normalized code
\* again (same date) changes nothing; the year prefix is added at most once
C19_NormalizeIdempotent ==
    (NormalizeCalled /\ LooksLikeCode(fn_in)) =>
        normalize_permit_code(fn_out.code, year) = fn_out.code

C19_Witness ==
    /\ NormalizeCalled
    /\ Len(Trimmed(fn_in)) = 6
    /\ DigitsOnly(Trimmed(fn_in))
    /\ Len(fn_out.code) = 8
    /\ normalize_permit_code(fn_out.code, year) = fn_out.code

---------------------------------------------------------------------------
(* C13: every text is answered, under Spec *)

VerdictBlocks ==
    {build_result_message(permit_code, v) :
        v \in {RESULT_READY, RESULT_PROCESSING, RESULT_UNKNOWN, RESULT_ERROR}}

\* the last thing shown for the update is the rejection message or one of
\* the four verdict blocks
FinalReply ==
    /\ out # <<>>
    /\ LET last == out[Len(out)]
       IN \/ last.text = "rejection" /\ last.block = NoBlock
          \/ last.text = "result" /\ last.block \in VerdictBlocks

\* the next step of a handle_message that has sent the placeholder
HandlerStep ==
    \/ CpsRequest
    \/ CpsReturn(SampleResponses)
    \/ HandleMessageEdit

\* C13: every waiting text is routed to handle_message, a handler that has
\* sent the placeholder can always take its next step whatever the query
\* produced, and when the handler has ended the last thing shown is the
\* rejection message or one of the four verdict blocks, never the placeholder
\* and never nothing
C13_EveryTextAnswered ==
    /\ \A i \in 1..Len(inbox) :
          inbox[i].type = "text" => Route(inbox[i]) = "handle_message"
    /\ pc # "idle" => (update.type = "text" /\ ENABLED HandlerStep)
    /\ (pc = "idle" /\ update.type = "text") => FinalReply

C13_Witness ==
    /\ pc = "idle"
    /\ update = Text(T_full)
    /\ resp = Raised("Timeout")
    /\ FinalReply
    /\ out[Len(out)].block = build_result_message(permit_code, RESULT_ERROR)

---------------------------------------------------------------------------
(* C14: no memory across updates, under Spec *)

\* a Bot API call without the message id Telegram assigned
Content(op, text, block, keyboard) ==
    [op |-> op, text |-> text, block |-> block, keyboard |-> keyboard]

ContentOf(calls) ==
    [i \in 1..Len(calls) |->
        Content(calls[i].op, calls[i].text, calls[i].block, calls[i].keyboard)]

AnswerThenEdit(text, keyboard) ==
    << Content("answer", "", NoBlock, {}),
       Content("edit_message_text", text, NoBlock, keyboard) >>

\* the replies to update u as a function of u, the current year and what the
\* portal answered, and of nothing else
RepliesTo(u, yr, r) ==
    CASE u = Command("start") ->
            <<Content("reply_text", "welcome", NoBlock, {"check", "help"})>>
      [] u = Callback("home") -> AnswerThenEdit("welcome", {"check", "help"})
      [] u = Command("check") ->
            <<Content("reply_text", "prompt_command", NoBlock, {})>>
      [] u = Callback("check") -> AnswerThenEdit("prompt_button", {})
      [] u = Command("help") ->
            <<Content("reply_text", "help_command", NoBlock, {"check"})>>
      [] u = Callback("help") -> AnswerThenEdit("help_button", {"home"})
      [] u.type = "text" /\ ~LooksLikeCode(u.text) ->
            <<Content("reply_text", "rejection", NoBlock, {})>>
      [] u.type = "text" /\ LooksLikeCode(u.text) ->
            << Content("reply_text", "checking", NoBlock, {}),
               Content("edit_text", "result",
                       build_result_message(normalize_permit_code(u.text, yr),
                                            check_permit_status_result(r)),
                       {"check", "home"}) >>
      [] OTHER -> <<>>

\* C14: whatever was handled before, the replies to an update are those its
\* type and content, the current date and the remote response determine
C14_NoCrossEventMemory ==
    (pc = "idle" /\ update # NoUpdate) =>
        ContentOf(out) = RepliesTo(update, year, resp)

C14_Witness ==
    /\ pc = "idle"
    /\ update.type = "text"
    /\ nvalid = 2
    /\ \E i \in 1..Len(log) : log[i].level = "ERROR" /\ log[i].code = permit_code
    /\ result = RESULT_READY
    /\ ContentOf(out) = RepliesTo(update, year, resp)

---------------------------------------------------------------------------
(* C15: the verdict of check_permit_status, under SpecClassify *)

Verdicts == {RESULT_READY, RESULT_PROCESSING, RESULT_UNKNOWN, RESULT_ERROR}

\* C15: every call ends, and ends with exactly one of the four verdicts
\* (ready, processing, unknown, error), whatever requests.get produced
C15_ExactlyOneVerdict ==
    /\ Cardinality({v.status : v \in Verdicts}) = 4
    /\ pc \in {"call", "inflight"} => (result = NoResult /\ ENABLED NextClassify)
    /\ pc = "returned" =>
          /\ Cardinality({v \in Verdicts : v = result}) = 1
          /\ result.status \in {"ready", "processing", "unknown", "error"}

C15_Witness ==
    /\ pc = "returned"
    /\ resp.kind = "response"
    /\ resp.status = 503
    /\ OccursAnyCase(TOKEN_READY, resp.text)
    /\ result = RESULT_ERROR

---------------------------------------------------------------------------
(* C16: one request per accepted text, under Spec *)

\* C16: the requests issued so far are as many as the texts is_permit_code
\* accepted so far (one is still to come while a handler is about to call
\* check_permit_status), each carries the normalized code of the text being
\* handled as `pratica`, and none is issued without an update
C16_OneQueryPerAcceptedText ==
    /\ nreq = IF pc = "call" THEN nvalid - 1 ELSE nvalid
    /\ nreq <= narrived
    /\ req # NoReq =>
          /\ update.type = "text"
          /\ LooksLikeCode(update.text)
          /\ req.pratica = normalize_permit_code(update.text, year)
    /\ (pc = "idle" /\ update.type = "text" /\ LooksLikeCode(update.text)) =>
          req # NoReq

C16_Witness ==
    /\ pc = "idle"
    /\ update.type = "text"
    /\ nvalid = 2
    /\ nreq = 2
    /\ Len(log) = 2
    /\ log[2].level = "ERROR"
    /\ log[2].code = permit_code
    /\ req.pratica = permit_code
    /\ result.status # "error"

---------------------------------------------------------------------------
(* C17: the status indicator of the result block, under Spec *)

IndicatorFor(status) ==
    IF status = "ready" THEN "green_circle"
    ELSE IF status = "processing" THEN "yellow_circle"
    ELSE IF status = "unknown" THEN "red_circle"
    ELSE IF status = "error" THEN "warning_sign"
    ELSE "none"

\* C17: every result block shown carries the indicator of its verdict
\* (ready green, processing yellow, unknown red, error warning), and the
\* fallback indicator of an unrecognized status is never shown
C17_IndicatorMatchesVerdict ==
    \A i \in 1..Len(out) :
        out[i].text = "result" =>
            /\ out[i].block.dot = IndicatorFor(result.status)
            /\ out[i].block.status_title = result.title
            /\ out[i].block.dot # "question_mark"

C17_Witness ==
    /\ Resolved
    /\ resp.kind = "response"
    /\ resp.status = 404
    /\ result.status = "error"
    /\ out[2].block.dot = "warning_sign"

---------------------------------------------------------------------------
(* C18: the code sent to the portal, under Spec *)

UpperLettersAndDigits ==
    {"A","B","C","D","E","F","G","H","I","J","K","L","M","N","O","P","Q","R",
     "S","T","U","V","W","X","Y","Z","0","1","2","3","4","5","6","7","8","9"}

\* the last n characters of s
Suffix(s, n) == SubSeq(s, Len(s) - n + 1, Len(s))

\* C18: the code of every request sent for a text message is made of
\* upper-case ASCII letters and digits only and is 6 to 20 long: 8 when the
\* trimmed text is six digits, the length of the trimmed text otherwise; it
\* would itself be accepted as a code, and the Referer ends with the same code
C18_QueriedCodeWellFormed ==
    req # NoReq =>
        LET code == req.pratica
            s == Trimmed(update.text)
        IN /\ \A i \in 1..Len(code) : code[i] \in UpperLettersAndDigits
           /\ Len(code) >= 6
           /\ Len(code) <= 20
           /\ Len(code) = IF Len(s) = 6 /\ DigitsOnly(s) THEN 8 ELSE Len(s)
           /\ LooksLikeCode(code)
           /\ Len(req.referer) > Len(code)
           /\ Suffix(req.referer, Len(code)) = code

C18_Witness ==
    /\ pc = "inflight"
    /\ update.text = T_max
    /\ Len(req.pratica) = 20
    /\ req.pratica[1] = "A"
    /\ req.pratica[20] = "9"

===========================================================================
